---- MODULE Spec2Model ----
(***************************************************************************)
(* State layer of the ClinicalRxQ member portal: the resource bookmark     *)
(* store (stores/resourceBookmarkStore.ts) with the panel effect that      *)
(* loads it, the auth store and the profile store (stores/profileStore.ts, *)
(* useAuthStore and useProfileStore), and the training progress functions  *)
(* of the Profile Dashboard Service with the TrainingPlayer effects that    *)
(* call them, and handleDelete of the account screen (pages/Account.tsx).  *)
(*                                                                         *)
(* Every `await supabase...` is a suspension point.  A call is a record    *)
(* with a program counter; one action runs the synchronous code from the   *)
(* call (or from a response) up to the next await.  The remote effect of   *)
(* a request is applied in the step that delivers its response.            *)
(*                                                                         *)
(* A remote request settles in one of three ways:                          *)
(*   "ok"    the promise resolves with { data, error: null }               *)
(*   "err"   the promise resolves with { data: null, error }               *)
(*   "throw" the promise rejects (the client library throws)               *)
(***************************************************************************)
EXTENDS Integers, Sequences, FiniteSets, TLC

VARIABLES
  bookmarkedResources,  \* resourceBookmarkStore: Map path -> catalogId
  loading,              \* resourceBookmarkStore: loading flag
  bookmarks,            \* remote table `bookmarks`: rows per (profile_id, resource_id)
  currentProfile,       \* useProfileStore.currentProfile: a MemberProfile, or NullProfile
  savedProfile,         \* sessionStorage['crxq.currentProfile']: the item, or NoItem
  tg,                   \* toggleBookmark calls
  ld,                   \* loadBookmarks calls
  run,                  \* history: the current run of toggleBookmark calls on one path
  isInitialized,        \* useAuthStore
  session,              \* useAuthStore
  user,                 \* useAuthStore
  account,              \* useAuthStore
  authSession,          \* the auth client's persisted session (user id or Null)
  accounts,             \* remote table `accounts`: row per user id
  lg,                   \* the login call
  lo,                   \* the logout call
  cs,                   \* checkSession calls
  ua,                   \* the updateAccount call
  profiles,             \* useProfileStore.profiles
  memberProfiles,       \* remote table `member_profiles`: the rows in creation order
  lp,                   \* the loadProfiles call
  ap,                   \* the addProfile call
  rf,                   \* the refreshCurrentProfile call
  hd,                   \* the handleDelete call of the account screen
  trainingProgress,     \* remote table `member_training_progress`: row per (profile, module)
  sv,                   \* a call of a training service function by any caller
  trace,                \* history: the service calls that wrote the table, in order
  index,                \* TrainingPlayer: index of the current video
  progress,             \* TrainingPlayer: progress state
  fx                    \* TrainingPlayer: the runs of its load and update effects

bkVars == <<bookmarkedResources, loading, bookmarks, currentProfile, savedProfile, tg, ld, run>>
authVars == <<isInitialized, session, user, account, authSession, accounts, lg, lo, cs, ua>>
dirVars == <<profiles, memberProfiles, lp, ap, rf, hd>>
vars == <<bookmarkedResources, loading, bookmarks, currentProfile, savedProfile, tg, ld, run,
          isInitialized, session, user, account, authSession, accounts, lg, lo, cs, ua,
          profiles, memberProfiles, lp, ap, rf, hd,
          trainingProgress, sv, trace, index, progress, fx>>
trVars == <<trainingProgress, sv, trace, index, progress, fx>>

Null == "null"
NoId == ""
Outcomes == {"ok", "err", "throw"}

(***************************************************************************)
(* Bounds                                                                  *)
(***************************************************************************)
MaxRows == 2   \* rows the bookmarks table holds for one (profile, resource)
MaxRun == 3    \* toggleBookmark calls counted in one run on a path
MaxProfiles == 3   \* rows the member_profiles table holds
MaxTrace == 3      \* training service calls recorded in the history

(***************************************************************************)
(* Data: profiles, the storage_files_catalog table, the UI's file items     *)
(***************************************************************************)
Profiles == {"P", "Q"}

\* storage_files_catalog rows by id; "c2" is stored with a leading slash
Catalog ==
  [c \in {"c1", "c2"} |->
     [id |-> c,
      file_path |-> IF c = "c1" THEN <<"a">> ELSE <<"/", "b">>,
      bucket_name |-> "clinicalrxqfiles"]]

\* resource ids a bookmark row may carry; "c9" has no catalog row any more
ResourceIds == DOMAIN Catalog \cup {"c9"}

\* StorageFileItem values the UI passes to toggleBookmark (path, catalogId?)
Resources ==
  { [path |-> <<"a">>, catalogId |-> NoId],
    [path |-> <<"b">>, catalogId |-> "c2"],
    [path |-> <<"x">>, catalogId |-> NoId] }

TgCalls == {"t1", "t2"}
LdCalls == {"l1", "l2"}

(***************************************************************************)
(* Map<string, string> as a function on the set of its keys                *)
(***************************************************************************)
EmptyMap == [k \in {} |-> NoId]

MapSet(m, k, v) == [x \in DOMAIN m \cup {k} |-> IF x = k THEN v ELSE m[x]]

\* faulty variant: the entry is not removed
MapDelete_Keep(m, k) == m

MapDelete(m, k) == [x \in DOMAIN m \ {k} |-> m[x]]

\* isBookmarked(resourcePath)
isBookmarked(resourcePath) == resourcePath \in DOMAIN bookmarkedResources

\* path.replace(/^\/+/, '')
RECURSIVE Normalize(_)
Normalize(path) ==
  IF path # <<>> /\ Head(path) = "/" THEN Normalize(Tail(path)) ELSE path

(***************************************************************************)
(* Remote store                                                            *)
(***************************************************************************)
\* faulty variant: the path filter is missing and the first row is taken
CatalogLookup_AnyRow(path) == CHOOSE c \in DOMAIN Catalog : TRUE

\* .from('storage_files_catalog').select('id').eq('file_path', p)
\*   .eq('bucket_name', 'clinicalrxqfiles').single(): the id, or NoId (data null)
CatalogLookup(path) ==
  LET hits == {c \in DOMAIN Catalog :
                 /\ Catalog[c].file_path = path
                 /\ Catalog[c].bucket_name = "clinicalrxqfiles"}
  IN IF Cardinality(hits) = 1 THEN CHOOSE c \in hits : TRUE ELSE NoId

\* a join with no catalog row (storage_files_catalog: null)
NullJoin == [id |-> Null, file_path |-> <<>>, bucket_name |-> Null]

\* rows of `bookmarks` for a profile (resource_type 'file'), each joined to
\* storage_files_catalog: the join is Null when the catalog row is gone
BookmarkRows(profileId) ==
  { [resource_id |-> c,
     storage_files_catalog |-> IF c \in DOMAIN Catalog THEN Catalog[c] ELSE NullJoin]
    : c \in {x \in ResourceIds : bookmarks[<<profileId, x>>] > 0} }

\* faulty variant: the path is stored as the catalog gives it
RECURSIVE BuildMap_Raw(_, _)
BuildMap_Raw(rows, acc) ==
  IF rows = {} THEN acc
  ELSE LET b == CHOOSE x \in rows : TRUE
           next == IF b.storage_files_catalog.id # Null
                      /\ b.storage_files_catalog.file_path # <<>>
                   THEN MapSet(acc, b.storage_files_catalog.file_path, b.resource_id)
                   ELSE acc
       IN BuildMap_Raw(rows \ {b}, next)

\* the loop of loadBookmarks over the returned rows, later rows overwriting
RECURSIVE BuildMap(_, _)
BuildMap(rows, acc) ==
  IF rows = {} THEN acc
  ELSE LET b == CHOOSE x \in rows : TRUE
           next == IF b.storage_files_catalog.id # Null
                      /\ b.storage_files_catalog.file_path # <<>>
                   THEN MapSet(acc, Normalize(b.storage_files_catalog.file_path),
                               b.resource_id)
                   ELSE acc
       IN BuildMap(rows \ {b}, next)

(***************************************************************************)
(* Member profiles and the saved selection (stores/profileStore.ts)        *)
(***************************************************************************)
\* rows of `member_profiles` at start: both profiles belong to account "u1";
\* "Q" has no email
ProfileRow(id) ==
  [id |-> id, account_id |-> "u1", full_name |-> id, role |-> "Pharmacist",
   email |-> IF id = "Q" THEN Null ELSE "e", phone |-> Null, is_active |-> TRUE,
   created_at |-> "t0", updated_at |-> Null]

\* mapRowToProfile (`x ?? null` keeps x; !!is_active)
mapRowToProfile(row) ==
  [id |-> row.id, accountId |-> row.account_id, fullName |-> row.full_name,
   role |-> row.role, email |-> row.email, phone |-> row.phone,
   isActive |-> (row.is_active = TRUE),
   createdAt |-> row.created_at, updatedAt |-> row.updated_at]

\* currentProfile: null
NullProfile ==
  [id |-> Null, accountId |-> Null, fullName |-> Null, role |-> Null, email |-> Null,
   phone |-> Null, isActive |-> FALSE, createdAt |-> Null, updatedAt |-> Null]

\* the MemberProfile the UI holds for a profile id
ProfileOf(id) == mapRowToProfile(ProfileRow(id))

\* the keys of a MemberProfile in the order JSON.stringify writes them
ProfileKeys ==
  <<"id", "accountId", "fullName", "role", "email", "phone", "isActive",
    "createdAt", "updatedAt">>

\* sessionStorage has no item under KEY
NoItem == [present |-> FALSE, text |-> <<>>]

\* one member of a JSON object text: key, kind of literal, literal
JSONMember(k, v) ==
  IF k = "isActive"
  THEN [k |-> k, t |-> "bool", v |-> IF v THEN "true" ELSE "false"]
  ELSE IF v = Null THEN [k |-> k, t |-> "null", v |-> "null"]
  ELSE [k |-> k, t |-> "str", v |-> v]

\* faulty variant: members whose value is null are left out
JSONStringify_DropNull(p) ==
  LET keep == SelectSeq(ProfileKeys, LAMBDA k : k = "isActive" \/ p[k] # Null)
  IN [i \in 1..Len(keep) |-> JSONMember(keep[i], p[keep[i]])]

\* JSON.stringify(p) of a MemberProfile: the text as its sequence of members
JSONStringify(p) ==
  [i \in 1..Len(ProfileKeys) |-> JSONMember(ProfileKeys[i], p[ProfileKeys[i]])]

\* the item setItem(KEY, JSON.stringify(p)) stores
ItemOf(p) == [present |-> TRUE, text |-> JSONStringify(p)]

\* the text is not JSON: JSON.parse throws
ParseThrows(text) == \E i \in DOMAIN text : text[i].t = "bad"

\* JSON.parse(text): the object of the members, the last member of a key winning
JSONParse(text) ==
  [k \in {text[i].k : i \in DOMAIN text} |->
     LET last == CHOOSE i \in DOMAIN text :
                   text[i].k = k /\ \A j \in DOMAIN text : text[j].k = k => j <= i
         m == text[last]
     IN IF m.t = "bool" THEN m.v = "true"
        ELSE IF m.t = "null" THEN Null
        ELSE m.v]

(***************************************************************************)
(* Call records                                                            *)
(***************************************************************************)
NoResource == [path |-> <<>>, catalogId |-> NoId]

IdleTg ==
  [pc |-> "idle", profileId |-> Null, resource |-> NoResource, snap |-> EmptyMap,
   wasBookmarked |-> FALSE, catalogId |-> NoId,
   outcome |-> "none", result |-> "none", error |-> "none"]

IdleLd == [pc |-> "idle", profileId |-> Null, outcome |-> "none", result |-> "none"]

NoRun == [path |-> <<>>, profileId |-> Null, n |-> 0]

\* a settled toggleBookmark call keeps only how it ended
TgSettled(outcome, result, error) ==
  [IdleTg EXCEPT !.outcome = outcome, !.result = result, !.error = error]

\* no call of the bookmark store is in flight
Quiet ==
  /\ \A i \in TgCalls : tg[i].pc = "idle"
  /\ \A j \in LdCalls : ld[j].pc = "idle"

\* history: a call on (profile, path) continues the run on that pair, starts
\* one when the path is not bookmarked, and otherwise is not part of a run
RunOnCall(profileId, path) ==
  IF ~Quiet THEN NoRun
  ELSE IF run.path = path /\ run.profileId = profileId /\ run.n < MaxRun THEN run
  ELSE IF path \notin DOMAIN bookmarkedResources
       THEN [path |-> path, profileId |-> profileId, n |-> 0]
       ELSE NoRun

\* history: a call of the run returned normally
RunOnReturn(c) ==
  IF run.path = c.resource.path /\ run.profileId = c.profileId
  THEN [run EXCEPT !.n = @ + 1] ELSE run

(***************************************************************************)
(* toggleBookmark                                                          *)
(***************************************************************************)
\* the try block up to its await (lines 54-68, 73-85)
ToggleEnterTry(c) ==
  IF c.wasBookmarked
  THEN IF c.snap[c.resource.path] = NoId
       THEN TgSettled("none", "resolved", "none")
       ELSE [c EXCEPT !.pc = "delete"]
  ELSE IF c.catalogId = NoId
       THEN TgSettled("none", "rejected", "CatalogIdRequired")
       ELSE [c EXCEPT !.pc = "insert"]

\* handleBookmarkToggle / handleRemoveBookmark -> toggleBookmark, to the first await
ToggleBookmarkCall(i, resource) ==
  /\ tg[i].pc = "idle"
  /\ currentProfile.id # Null
  /\ LET was == resource.path \in DOMAIN bookmarkedResources
         c == [IdleTg EXCEPT !.profileId = currentProfile.id, !.resource = resource,
                             !.snap = bookmarkedResources, !.wasBookmarked = was,
                             !.catalogId = resource.catalogId, !.result = "pending"]
         c2 == IF resource.catalogId = NoId /\ ~was
               THEN [c EXCEPT !.pc = "lookup"]
               ELSE ToggleEnterTry(c)
     IN /\ tg' = [tg EXCEPT ![i] = c2]
        /\ run' = LET r == RunOnCall(currentProfile.id, resource.path)
                  IN IF c2.pc = "idle" /\ c2.result = "resolved"
                     THEN [r EXCEPT !.n = IF r.path = <<>> THEN 0 ELSE r.n + 1]
                     ELSE r
  /\ UNCHANGED <<bookmarkedResources, loading, bookmarks, currentProfile, savedProfile, ld>>
  /\ UNCHANGED <<authVars, dirVars, trVars>>

\* the catalog lookup settles (lines 40-52)
ToggleBookmarkLookup(i) ==
  /\ tg[i].pc = "lookup"
  /\ \E o \in Outcomes :
       LET c == tg[i]
           id == IF o = "ok" THEN CatalogLookup(c.resource.path) ELSE NoId
       IN tg' = [tg EXCEPT ![i] =
            IF o = "throw" THEN TgSettled(o, "rejected", "RemoteError")
            ELSE IF id # NoId THEN ToggleEnterTry([c EXCEPT !.catalogId = id])
            ELSE TgSettled(o, "rejected", "ResourceNotFound")]
  /\ UNCHANGED <<bookmarkedResources, loading, bookmarks, currentProfile, savedProfile, ld, run>>
  /\ UNCHANGED <<authVars, dirVars, trVars>>

\* faulty variant: the delete is keyed by the catalog id of the argument
ToggleBookmarkDelete_ByArgument(i) ==
  /\ tg[i].pc = "delete"
  /\ \E o \in Outcomes :
       LET c == tg[i]
       IN /\ bookmarks' = IF o = "ok" /\ c.resource.catalogId # NoId
                          THEN [bookmarks EXCEPT ![<<c.profileId, c.resource.catalogId>>] = 0]
                          ELSE bookmarks
          /\ IF o = "throw"
             THEN /\ tg' = [tg EXCEPT ![i] = TgSettled(o, "rejected", "RemoteError")]
                  /\ UNCHANGED <<bookmarkedResources, run>>
             ELSE /\ tg' = [tg EXCEPT ![i] = TgSettled(o, "resolved", "none")]
                  /\ bookmarkedResources' = MapDelete(c.snap, c.resource.path)
                  /\ run' = RunOnReturn(c)
  /\ UNCHANGED <<loading, currentProfile, savedProfile, ld>>
  /\ UNCHANGED <<authVars, dirVars, trVars>>

\* the delete settles (lines 64-72, 91-94)
ToggleBookmarkDelete(i) ==
  /\ tg[i].pc = "delete"
  /\ \E o \in Outcomes :
       LET c == tg[i]
           existingCatalogId == c.snap[c.resource.path]
       IN /\ bookmarks' = IF o = "ok"
                          THEN [bookmarks EXCEPT ![<<c.profileId, existingCatalogId>>] = 0]
                          ELSE bookmarks
          /\ IF o = "throw"
             THEN /\ tg' = [tg EXCEPT ![i] = TgSettled(o, "rejected", "RemoteError")]
                  /\ UNCHANGED <<bookmarkedResources, run>>
             ELSE /\ tg' = [tg EXCEPT ![i] = TgSettled(o, "resolved", "none")]
                  /\ bookmarkedResources' = MapDelete(c.snap, c.resource.path)
                  /\ run' = RunOnReturn(c)
  /\ UNCHANGED <<loading, currentProfile, savedProfile, ld>>
  /\ UNCHANGED <<authVars, dirVars, trVars>>

\* the insert settles (lines 79-90, 91-94)
ToggleBookmarkInsert(i) ==
  /\ tg[i].pc = "insert"
  /\ \E o \in Outcomes :
       LET c == tg[i]
           key == <<c.profileId, c.catalogId>>
       IN /\ o = "ok" => bookmarks[key] < MaxRows
          /\ bookmarks' = IF o = "ok"
                          THEN [bookmarks EXCEPT ![key] = @ + 1]
                          ELSE bookmarks
          /\ IF o = "throw"
             THEN /\ tg' = [tg EXCEPT ![i] = TgSettled(o, "rejected", "RemoteError")]
                  /\ UNCHANGED <<bookmarkedResources, run>>
             ELSE /\ tg' = [tg EXCEPT ![i] = TgSettled(o, "resolved", "none")]
                  /\ bookmarkedResources' = MapSet(c.snap, c.resource.path, c.catalogId)
                  /\ run' = RunOnReturn(c)
  /\ UNCHANGED <<loading, currentProfile, savedProfile, ld>>
  /\ UNCHANGED <<authVars, dirVars, trVars>>

(***************************************************************************)
(* loadBookmarks, clearBookmarks and the panel effect                      *)
(***************************************************************************)
\* loadBookmarks to its await (lines 97-112)
LoadBookmarksCall(j, profileId) ==
  /\ ld[j].pc = "idle"
  /\ loading' = TRUE
  /\ ld' = [ld EXCEPT ![j] = [pc |-> "select", profileId |-> profileId,
                              outcome |-> "none", result |-> "pending"]]
  /\ run' = NoRun

\* faulty variant: a failed load empties the cache
LoadBookmarksSelect_ClearOnError(j) ==
  /\ ld[j].pc = "select"
  /\ \E o \in Outcomes :
       /\ ld' = [ld EXCEPT ![j] = [IdleLd EXCEPT !.outcome = o, !.result = "resolved"]]
       /\ bookmarkedResources' =
            IF o = "ok" THEN BuildMap(BookmarkRows(ld[j].profileId), EmptyMap)
            ELSE EmptyMap
  /\ loading' = FALSE
  /\ UNCHANGED <<bookmarks, currentProfile, savedProfile, tg, run>>
  /\ UNCHANGED <<authVars, dirVars, trVars>>

\* the joined select settles (lines 114-131)
LoadBookmarksSelect(j) ==
  /\ ld[j].pc = "select"
  /\ \E o \in Outcomes :
       /\ ld' = [ld EXCEPT ![j] = [IdleLd EXCEPT !.outcome = o, !.result = "resolved"]]
       /\ bookmarkedResources' =
            IF o = "ok" THEN BuildMap(BookmarkRows(ld[j].profileId), EmptyMap)
            ELSE bookmarkedResources
  /\ loading' = FALSE
  /\ UNCHANGED <<bookmarks, currentProfile, savedProfile, tg, run>>
  /\ UNCHANGED <<authVars, dirVars, trVars>>

\* clearBookmarks (no component under src/ calls it)
ClearBookmarks ==
  /\ bookmarkedResources' = EmptyMap
  /\ UNCHANGED <<loading, bookmarks, currentProfile, savedProfile, tg, ld, run>>
  /\ UNCHANGED <<authVars, dirVars, trVars>>

\* what sessionStorage.getItem does: it answers, or it throws (storage denied)
Accesses == {"granted", "denied"}

\* faulty variant: without the try/catch, an exception leaves the function
LoadSavedProfile_NoCatch(access) ==
  IF access = "denied" THEN [threw |-> TRUE, value |-> NullProfile]
  ELSE IF ~savedProfile.present \/ savedProfile.text = <<>>
       THEN [threw |-> FALSE, value |-> NullProfile]
  ELSE IF ParseThrows(savedProfile.text) THEN [threw |-> TRUE, value |-> NullProfile]
  ELSE [threw |-> FALSE, value |-> JSONParse(savedProfile.text)]

\* loadSavedProfile() as one evaluation: whether an exception left it, and the
\* value it returned; getItem and JSON.parse run inside its try block
LoadSavedProfile(access) ==
  IF access = "denied" THEN [threw |-> FALSE, value |-> NullProfile]
  ELSE IF ~savedProfile.present \/ savedProfile.text = <<>>
       THEN [threw |-> FALSE, value |-> NullProfile]
  ELSE IF ParseThrows(savedProfile.text) THEN [threw |-> FALSE, value |-> NullProfile]
  ELSE [threw |-> FALSE, value |-> JSONParse(savedProfile.text)]

\* loadSavedProfile(): the saved item parsed; null when there is none, when it
\* is empty and when it does not parse
loadSavedProfile == LoadSavedProfile("granted").value

\* saveProfile(p): setItem of the JSON text, where an exception of the storage
\* (its quota) is ignored and the item stays as it was; removeItem for null
saveProfile(p) ==
  IF p # NullProfile
  THEN \E stored \in BOOLEAN :
         savedProfile' = IF stored THEN ItemOf(p) ELSE savedProfile
  ELSE savedProfile' = NoItem

\* useProfileStore.setCurrentProfile(p)
setCurrentProfile(p) ==
  /\ currentProfile' = p
  /\ saveProfile(p)

\* setCurrentProfile(p), then the panel's effect on currentProfile?.id
SetCurrentProfile(p, j) ==
  /\ p # currentProfile
  /\ setCurrentProfile(p)
  /\ IF p # NullProfile
     THEN LoadBookmarksCall(j, p.id)
     ELSE UNCHANGED <<loading, ld, run>>
  /\ UNCHANGED <<bookmarkedResources, bookmarks, tg>>
  /\ UNCHANGED <<authVars, dirVars, trVars>>

\* the panel mounts again (navigation): its effect runs for the current profile
PanelMount(j) ==
  /\ currentProfile # NullProfile
  /\ LoadBookmarksCall(j, currentProfile.id)
  /\ UNCHANGED <<bookmarkedResources, bookmarks, currentProfile, savedProfile, tg>>
  /\ UNCHANGED <<authVars, dirVars, trVars>>

(***************************************************************************)
(* Auth store (useAuthStore): data                                         *)
(***************************************************************************)
Users == {"u1", "u2"}

\* what the login form submits: the credentials of a user, or bad ones
Credentials == Users \cup {"bad"}

Undef == "undefined"

\* columns of `accounts` that updateAccount may write
PatchFields ==
  {"pharmacyName", "pharmacyPhone", "subscriptionStatus",
   "address1", "city", "state", "zipcode"}

\* the row of a user before any update
InitialRow(u) ==
  [id |-> u, email |-> u, pharmacy_name |-> "v", pharmacy_phone |-> "v",
   subscription_status |-> "active", created_at |-> "t0", updated_at |-> Null,
   address1 |-> "v", city |-> "v", state |-> "v", zipcode |-> "v"]

\* account: null
NullAccount ==
  [id |-> Null, email |-> Null, pharmacyName |-> Null, pharmacyPhone |-> Null,
   subscriptionStatus |-> Null, createdAt |-> Null, updatedAt |-> Null,
   address1 |-> Null, city |-> Null, state |-> Null, zipcode |-> Null]

\* mapRowToAccount (`x ?? null` keeps x; a null status reads 'inactive')
mapRowToAccount(row) ==
  [id |-> row.id, email |-> row.email,
   pharmacyName |-> row.pharmacy_name,
   pharmacyPhone |-> row.pharmacy_phone,
   subscriptionStatus |-> IF row.subscription_status = Null THEN "inactive"
                          ELSE row.subscription_status,
   createdAt |-> row.created_at, updatedAt |-> row.updated_at,
   address1 |-> row.address1, city |-> row.city, state |-> row.state,
   zipcode |-> row.zipcode]

\* x ?? null
OrNull(x) == IF x = Undef THEN Null ELSE x

\* the payload of updateAccount (lines 187-196); Undef keys are not sent
Payload(patch) ==
  [pharmacy_name |-> patch.pharmacyName,
   pharmacy_phone |-> OrNull(patch.pharmacyPhone),
   subscription_status |-> IF patch.subscriptionStatus = Null THEN Undef
                           ELSE patch.subscriptionStatus,
   address1 |-> OrNull(patch.address1),
   city |-> OrNull(patch.city),
   state |-> OrNull(patch.state),
   zipcode |-> OrNull(patch.zipcode),
   updated_at |-> "now"]

\* .update(payload): the columns sent replace the stored ones
UpdateRow(row, payload) ==
  [col \in DOMAIN row |->
     IF col \in DOMAIN payload /\ payload[col] # Undef THEN payload[col] ELSE row[col]]

NoPatch == [f \in PatchFields |-> Undef]

\* patches the account form and other callers pass
Patches ==
  { NoPatch,
    [NoPatch EXCEPT !.pharmacyName = "w"],
    [NoPatch EXCEPT !.city = "w", !.state = "w"],
    [NoPatch EXCEPT !.pharmacyPhone = Null],
    [NoPatch EXCEPT !.subscriptionStatus = "inactive"],
    [f \in PatchFields |-> IF f = "subscriptionStatus" THEN "active" ELSE "w"] }

CsCalls == {"mount", "login"}

IdleLg == [pc |-> "idle", cred |-> Null, attempts |-> 0,
           outcome |-> "none", result |-> "none", error |-> "none"]

IdleLo == [pc |-> "idle", outcome |-> "none", result |-> "none"]

IdleCs == [pc |-> "idle", userId |-> Null, outcome |-> "none", result |-> "none"]

IdleUa == [pc |-> "idle", userId |-> Null, patch |-> NoPatch, outcome |-> "none",
           result |-> "none", returned |-> NullAccount]

\* the error object a failed auth request carries
AuthError(cred, o) ==
  IF o = "throw" THEN "NetworkError"
  ELSE IF cred = "bad" THEN "InvalidCredentials" ELSE "AuthApiError"

\* no call of the auth store is in flight
AuthQuiet ==
  /\ lg.pc = "idle" /\ lo.pc = "idle" /\ ua.pc = "idle"
  /\ \A k \in CsCalls : cs[k].pc = "idle"

(***************************************************************************)
(* checkSession                                                            *)
(***************************************************************************)
\* checkSession to its first await (lines 156-159)
CheckSessionEnter(k) ==
  cs' = [cs EXCEPT ![k] = [IdleCs EXCEPT !.pc = "getSession", !.result = "pending"]]

\* AuthProvider / RequireAuth effect: checkSession()
CheckSessionCall ==
  /\ AuthQuiet
  /\ CheckSessionEnter("mount")
  /\ UNCHANGED <<isInitialized, session, user, account, authSession, accounts, lg, lo, ua>>
  /\ UNCHANGED <<bkVars, dirVars, trVars>>

\* login resolves when the checkSession it awaits settles (line 148)
LoginAfterCheck(k) ==
  IF k = "login" THEN [IdleLg EXCEPT !.cred = lg.cred, !.attempts = lg.attempts,
                                     !.outcome = "ok", !.result = "resolved"]
  ELSE lg

\* faulty variant: the catch block does not mark the store initialized
CheckSessionCatch_NoInit == UNCHANGED <<isInitialized, account>>

\* the catch block of checkSession (lines 177-180)
CheckSessionCatch == isInitialized' = TRUE /\ UNCHANGED account

\* getSession settles (lines 159-167, 177-180)
CheckSessionGetSession(k) ==
  /\ cs[k].pc = "getSession"
  /\ \E o \in Outcomes :
       LET sess == IF o = "ok" THEN authSession ELSE Null
       IN IF o = "throw"
          THEN /\ CheckSessionCatch
               /\ cs' = [cs EXCEPT ![k] = [IdleCs EXCEPT !.outcome = o, !.result = "resolved"]]
               /\ lg' = LoginAfterCheck(k)
               /\ UNCHANGED <<session, user>>
          ELSE /\ session' = sess
               /\ user' = sess
               /\ IF sess = Null
                  THEN /\ account' = NullAccount
                       /\ isInitialized' = TRUE
                       /\ cs' = [cs EXCEPT ![k] =
                                   [IdleCs EXCEPT !.outcome = o, !.result = "resolved"]]
                       /\ lg' = LoginAfterCheck(k)
                  ELSE /\ cs' = [cs EXCEPT ![k] =
                                   [cs[k] EXCEPT !.pc = "fetchAccount", !.userId = sess]]
                       /\ UNCHANGED <<account, isInitialized, lg>>
  /\ UNCHANGED <<authSession, accounts, lo, ua>>
  /\ UNCHANGED <<bkVars, dirVars, trVars>>

\* the accounts select settles (lines 168-180)
CheckSessionFetchAccount(k) ==
  /\ cs[k].pc = "fetchAccount"
  /\ \E o \in Outcomes :
       /\ IF o = "ok"
          THEN /\ account' = mapRowToAccount(accounts[cs[k].userId])
               /\ isInitialized' = TRUE
          ELSE CheckSessionCatch
       /\ cs' = [cs EXCEPT ![k] = [IdleCs EXCEPT !.outcome = o, !.result = "resolved"]]
  /\ lg' = LoginAfterCheck(k)
  /\ UNCHANGED <<session, user, authSession, accounts, lo, ua>>
  /\ UNCHANGED <<bkVars, dirVars, trVars>>

(***************************************************************************)
(* login, logout                                                           *)
(***************************************************************************)
\* Login.onSubmit -> login(email, password), to the await of signInWithPassword
LoginCall(cred) ==
  /\ AuthQuiet
  /\ lg' = [IdleLg EXCEPT !.pc = "signIn", !.cred = cred, !.attempts = 1,
                          !.result = "pending"]
  /\ UNCHANGED <<isInitialized, session, user, account, authSession, accounts, lo, cs, ua>>
  /\ UNCHANGED <<bkVars, dirVars, trVars>>

\* faulty variant: session and user are stored before the error is read
LoginSignIn_SetBeforeCheck ==
  /\ lg.pc = "signIn"
  /\ \E o \in Outcomes :
       /\ lg.cred = "bad" => o # "ok"
       /\ IF o = "ok"
          THEN /\ authSession' = lg.cred
               /\ session' = lg.cred
               /\ user' = lg.cred
               /\ lg' = [lg EXCEPT !.pc = "checkSession"]
               /\ CheckSessionEnter("login")
          ELSE /\ lg' = [IdleLg EXCEPT !.cred = lg.cred, !.attempts = lg.attempts,
                                       !.outcome = o, !.result = "rejected",
                                       !.error = AuthError(lg.cred, o)]
               /\ session' = Null
               /\ user' = Null
               /\ UNCHANGED <<authSession, cs>>
  /\ UNCHANGED <<isInitialized, account, accounts, lo, ua>>
  /\ UNCHANGED <<bkVars, dirVars, trVars>>

\* signInWithPassword settles (lines 145-148)
LoginSignIn ==
  /\ lg.pc = "signIn"
  /\ \E o \in Outcomes :
       /\ lg.cred = "bad" => o # "ok"
       /\ IF o = "ok"
          THEN /\ authSession' = lg.cred
               /\ session' = lg.cred
               /\ user' = lg.cred
               /\ lg' = [lg EXCEPT !.pc = "checkSession"]
               /\ CheckSessionEnter("login")
          ELSE /\ lg' = [IdleLg EXCEPT !.cred = lg.cred, !.attempts = lg.attempts,
                                       !.outcome = o, !.result = "rejected",
                                       !.error = AuthError(lg.cred, o)]
               /\ UNCHANGED <<authSession, session, user, cs>>
  /\ UNCHANGED <<isInitialized, account, accounts, lo, ua>>
  /\ UNCHANGED <<bkVars, dirVars, trVars>>

\* logout(), to the await of signOut (line 152)
LogoutCall ==
  /\ AuthQuiet
  /\ lo' = [IdleLo EXCEPT !.pc = "signOut", !.result = "pending"]
  /\ UNCHANGED <<isInitialized, session, user, account, authSession, accounts, lg, cs, ua>>
  /\ UNCHANGED <<bkVars, dirVars, trVars>>

\* signOut settles (lines 152-153)
LogoutSignOut ==
  /\ lo.pc = "signOut"
  /\ \E o \in Outcomes :
       /\ authSession' = IF o = "ok" THEN Null ELSE authSession
       /\ IF o = "throw"
          THEN /\ lo' = [IdleLo EXCEPT !.outcome = o, !.result = "rejected"]
               /\ UNCHANGED <<session, user, account>>
          ELSE /\ lo' = [IdleLo EXCEPT !.outcome = o, !.result = "resolved"]
               /\ session' = Null
               /\ user' = Null
               /\ account' = NullAccount
  /\ UNCHANGED <<isInitialized, accounts, lg, cs, ua>>
  /\ UNCHANGED <<bkVars, dirVars, trVars>>

(***************************************************************************)
(* updateAccount                                                           *)
(***************************************************************************)
\* updateAccount(patch), to the await of the update (lines 183-203)
UpdateAccountCall(patch) ==
  /\ AuthQuiet
  /\ ua' = IF user = Null
           THEN [IdleUa EXCEPT !.result = "resolved"]
           ELSE [IdleUa EXCEPT !.pc = "update", !.userId = user, !.patch = patch,
                               !.result = "pending"]
  /\ UNCHANGED <<isInitialized, session, user, account, authSession, accounts, lg, lo, cs>>
  /\ UNCHANGED <<bkVars, dirVars, trVars>>

\* the update settles (lines 198-208)
UpdateAccountUpdate ==
  /\ ua.pc = "update"
  /\ \E o \in Outcomes :
       IF o = "ok"
       THEN LET data == UpdateRow(accounts[ua.userId], Payload(ua.patch))
            IN /\ accounts' = [accounts EXCEPT ![ua.userId] = data]
               /\ account' = mapRowToAccount(data)
               /\ ua' = [IdleUa EXCEPT !.userId = ua.userId, !.patch = ua.patch,
                                       !.outcome = o, !.result = "resolved",
                                       !.returned = mapRowToAccount(data)]
       ELSE /\ ua' = [IdleUa EXCEPT !.outcome = o, !.result = "rejected"]
            /\ UNCHANGED <<accounts, account>>
  /\ UNCHANGED <<isInitialized, session, user, authSession, lg, lo, cs>>
  /\ UNCHANGED <<bkVars, dirVars, trVars>>

(***************************************************************************)
(* Profile directory (useProfileStore)                                     *)
(***************************************************************************)
\* ids the remote store gives to inserted rows
NewIds == {"N1", "N2"}

\* what a caller passes to addProfile; a key that is left out is Undef and
\* isActive is "true", "false" or left out
EmptyData ==
  [accountId |-> Undef, fullName |-> Undef, role |-> Undef, email |-> Undef,
   phone |-> Undef, isActive |-> Undef]

ProfileData ==
  { EmptyData,
    [EmptyData EXCEPT !.accountId = "u1"],
    [EmptyData EXCEPT !.accountId = "u1", !.role = "Technician"],
    [EmptyData EXCEPT !.accountId = "u1", !.fullName = "N", !.role = "Technician",
                      !.isActive = "false"] }

\* the payload of addProfile (lines 54-61)
ProfilePayload(p) ==
  [account_id |-> p.accountId, full_name |-> p.fullName, role |-> p.role,
   email |-> OrNull(p.email), phone |-> OrNull(p.phone),
   is_active |-> (p.isActive # "false")]

\* x left out of an insert is stored as null
Stored(x) == IF x = Undef THEN Null ELSE x

\* .insert(payload).select().single(): the row the remote store creates
InsertedRow(payload, id) ==
  [id |-> id, account_id |-> payload.account_id,
   full_name |-> Stored(payload.full_name), role |-> Stored(payload.role),
   email |-> payload.email, phone |-> payload.phone, is_active |-> payload.is_active,
   created_at |-> "now", updated_at |-> Null]

\* rows of an account, in the order of member_profiles (created_at ascending)
RowsOfAccount(accountId) == SelectSeq(memberProfiles, LAMBDA r : r.account_id = accountId)

\* (data ?? []).map(mapRowToProfile)
MapRows(rows) == [i \in 1..Len(rows) |-> mapRowToProfile(rows[i])]

IdleLp == [pc |-> "idle", accountId |-> Null, outcome |-> "none", result |-> "none"]

IdleAp == [pc |-> "idle", data |-> EmptyData, outcome |-> "none", result |-> "none",
           returned |-> NullProfile]

IdleRf == [pc |-> "idle", id |-> Null, outcome |-> "none", result |-> "none"]

\* handleDelete: the profile to delete and what the handler's closure holds
IdleHd == [pc |-> "idle", profileToDelete |-> NullProfile, currentProfile |-> NullProfile,
           profiles |-> <<>>, accountId |-> Null, outcome |-> "none"]

\* loadProfiles(accountId), to its await (lines 36-41); the caller passes account.id
LoadProfilesCall ==
  /\ lp.pc = "idle"
  /\ account # NullAccount
  /\ lp' = [IdleLp EXCEPT !.pc = "select", !.accountId = account.id, !.result = "pending"]
  /\ UNCHANGED <<profiles, memberProfiles, ap, rf, hd>>
  /\ UNCHANGED <<bkVars, authVars, trVars>>

\* the select settles (lines 43-45): an error is thrown to the caller
LoadProfilesSelect ==
  /\ lp.pc = "select"
  /\ \E o \in Outcomes :
       IF o = "ok"
       THEN /\ profiles' = MapRows(RowsOfAccount(lp.accountId))
            /\ lp' = [IdleLp EXCEPT !.accountId = lp.accountId, !.outcome = o,
                                    !.result = "resolved"]
       ELSE /\ lp' = [IdleLp EXCEPT !.accountId = lp.accountId, !.outcome = o,
                                    !.result = "rejected"]
            /\ UNCHANGED profiles
  /\ UNCHANGED <<memberProfiles, ap, rf, hd>>
  /\ UNCHANGED <<bkVars, authVars, trVars>>

\* addProfile(p), to its await (lines 53-66): the insert is sent
AddProfileCall(data) ==
  /\ ap.pc = "idle"
  /\ ap' = [IdleAp EXCEPT !.pc = "insert", !.data = data, !.result = "pending"]
  /\ UNCHANGED <<profiles, memberProfiles, lp, rf, hd>>
  /\ UNCHANGED <<bkVars, authVars, trVars>>

\* the insert settles (lines 67-70); the remote store takes a row only when it
\* names its account
AddProfileInsert ==
  /\ ap.pc = "insert"
  /\ \E o \in Outcomes :
       LET payload == ProfilePayload(ap.data)
           free == NewIds \ {memberProfiles[i].id : i \in DOMAIN memberProfiles}
       IN IF o = "ok"
          THEN /\ payload.account_id # Undef
               /\ Len(memberProfiles) < MaxProfiles
               /\ free # {}
               /\ LET row == InsertedRow(payload, CHOOSE id \in free : TRUE)
                      created == mapRowToProfile(row)
                  IN /\ memberProfiles' = Append(memberProfiles, row)
                     /\ profiles' = Append(profiles, created)
                     /\ ap' = [IdleAp EXCEPT !.data = ap.data, !.outcome = o,
                                             !.result = "resolved", !.returned = created]
          ELSE /\ ap' = [IdleAp EXCEPT !.data = ap.data, !.outcome = o,
                                       !.result = "rejected"]
               /\ UNCHANGED <<profiles, memberProfiles>>
  /\ UNCHANGED <<lp, rf, hd>>
  /\ UNCHANGED <<bkVars, authVars, trVars>>

\* refreshCurrentProfile(), to its await (lines 73-80)
RefreshCurrentProfileCall ==
  /\ rf.pc = "idle"
  /\ rf' = IF currentProfile = NullProfile
           THEN [IdleRf EXCEPT !.result = "resolved"]
           ELSE [IdleRf EXCEPT !.pc = "select", !.id = currentProfile.id,
                               !.result = "pending"]
  /\ UNCHANGED <<profiles, memberProfiles, lp, ap, hd>>
  /\ UNCHANGED <<bkVars, authVars, trVars>>

\* the select settles (lines 81-84); .single() gives an error when no row matches
RefreshCurrentProfileSelect ==
  /\ rf.pc = "select"
  /\ \E o \in Outcomes :
       LET hits == SelectSeq(memberProfiles, LAMBDA r : r.id = rf.id)
       IN IF o = "ok" /\ Len(hits) = 1
          THEN /\ setCurrentProfile(mapRowToProfile(hits[1]))
               /\ rf' = [IdleRf EXCEPT !.id = rf.id, !.outcome = o, !.result = "resolved"]
          ELSE /\ rf' = [IdleRf EXCEPT !.id = rf.id,
                                       !.outcome = IF o = "ok" THEN "err" ELSE o,
                                       !.result = "rejected"]
               /\ UNCHANGED <<currentProfile, savedProfile>>
  /\ UNCHANGED <<profiles, memberProfiles, lp, ap, hd>>
  /\ UNCHANGED <<bookmarkedResources, loading, bookmarks, tg, ld, run>>
  /\ UNCHANGED <<authVars, trVars>>

\* handleSetActive / handleConfirm: setCurrentProfile of a listed profile;
\* handleDelete passes null when no profile remains
SelectProfile(p) ==
  /\ setCurrentProfile(p)
  /\ UNCHANGED dirVars
  /\ UNCHANGED <<bookmarkedResources, loading, bookmarks, tg, ld, run>>
  /\ UNCHANGED <<authVars, trVars>>

(***************************************************************************)
(* Account screen: handleDelete (pages/Account.tsx)                        *)
(***************************************************************************)
\* handleDelete(), to the await of the delete (lines 108-115); the dialog
\* offers a listed profile, and the handler works on the account, the active
\* profile and the list of the render it was created in
HandleDeleteCall(p) ==
  /\ hd.pc = "idle"
  /\ account # NullAccount
  /\ hd' = [IdleHd EXCEPT !.pc = "delete", !.profileToDelete = p,
                          !.currentProfile = currentProfile, !.profiles = profiles,
                          !.accountId = account.id]
  /\ UNCHANGED <<profiles, memberProfiles, lp, ap, rf>>
  /\ UNCHANGED <<bkVars, authVars, trVars>>

\* remainingProfiles[0] || null (lines 122-123)
FirstRemaining(list, id) ==
  LET remainingProfiles == SelectSeq(list, LAMBDA q : q.id # id)
  IN IF remainingProfiles = <<>> THEN NullProfile ELSE remainingProfiles[1]

\* the delete settles (lines 113-126, 127-131): on success the active profile
\* moves to the first remaining one when it was the deleted one, and the list
\* is loaded again; a failure is shown as a toast
HandleDeleteDelete ==
  /\ hd.pc = "delete"
  /\ \E o \in Outcomes :
       IF o = "ok"
       THEN /\ memberProfiles' =
                 SelectSeq(memberProfiles, LAMBDA r : r.id # hd.profileToDelete.id)
            /\ IF hd.currentProfile.id = hd.profileToDelete.id
               THEN setCurrentProfile(FirstRemaining(hd.profiles, hd.profileToDelete.id))
               ELSE UNCHANGED <<currentProfile, savedProfile>>
            /\ hd' = [hd EXCEPT !.pc = "load"]
       ELSE /\ hd' = [IdleHd EXCEPT !.outcome = o]
            /\ UNCHANGED <<memberProfiles, currentProfile, savedProfile>>
  /\ UNCHANGED <<profiles, lp, ap, rf>>
  /\ UNCHANGED <<bookmarkedResources, loading, bookmarks, tg, ld, run>>
  /\ UNCHANGED <<authVars, trVars>>

\* loadProfilesAndSetDefault(accountId) of the profile store: the profiles of
\* the account replace the list; the active profile is not touched
loadProfilesAndSetDefault(accountId, o) ==
  IF o = "ok" THEN MapRows(RowsOfAccount(accountId)) ELSE profiles

\* await loadProfilesAndSetDefault(account.id) settles (lines 126-131)
HandleDeleteLoad ==
  /\ hd.pc = "load"
  /\ \E o \in Outcomes :
       /\ profiles' = loadProfilesAndSetDefault(hd.accountId, o)
       /\ hd' = [IdleHd EXCEPT !.outcome = o]
  /\ UNCHANGED <<memberProfiles, lp, ap, rf>>
  /\ UNCHANGED <<bkVars, authVars, trVars>>

DirIdle ==
  /\ profiles = <<>>
  /\ memberProfiles = <<ProfileRow("P"), ProfileRow("Q")>>
  /\ lp = IdleLp /\ ap = IdleAp /\ rf = IdleRf /\ hd = IdleHd

(***************************************************************************)
(* Training progress service (Profile Dashboard Service)                   *)
(***************************************************************************)
\* the (member_profile_id, training_module_id) pairs of the table
TrainingKeys == {<<"P", "training_mtm">>}

\* no row for a pair
NoRow ==
  [exists |-> FALSE, started_at |-> Null, is_completed |-> FALSE,
   completion_percentage |-> 0, completed_at |-> Null, attempts |-> 0]

Min(a, b) == IF a < b THEN a ELSE b

Max(a, b) == IF a > b THEN a ELSE b

\* faulty variant: only the upper limit is applied
Clamp_UpperOnly(x) == Min(100, x)

\* Math.min(100, Math.max(0, completionPercentage))
Clamp(x) == Min(100, Max(0, x))

\* percentages a caller passes to updateTrainingProgress
Percentages == {-10, -1, 0, 40, 100, 101, 150}

\* .upsert({...}, { onConflict: 'member_profile_id,training_module_id' }): the
\* columns sent are written, a column not sent keeps its value on a conflict
Upsert(table, key) ==
  [table EXCEPT ![key] =
     [exists |-> TRUE, started_at |-> "now", is_completed |-> FALSE,
      completion_percentage |-> 0, completed_at |-> table[key].completed_at,
      attempts |-> 1]]

\* faulty variant: the completion time is not stamped
UpdateData_NoStamp(completionPercentage, isCompleted) ==
  [completion_percentage |-> Clamp(completionPercentage),
   is_completed |-> isCompleted,
   completed_at |-> Undef]

\* updateData of updateTrainingProgress (lines 281-288)
UpdateData(completionPercentage, isCompleted) ==
  [completion_percentage |-> Clamp(completionPercentage),
   is_completed |-> isCompleted,
   completed_at |-> IF isCompleted THEN "now" ELSE Undef]

\* .update(updateData).eq(...).eq(...): the matching row, if any, is written
Update(table, key, updateData) ==
  IF table[key].exists
  THEN [table EXCEPT ![key] =
          [@ EXCEPT !.completion_percentage = updateData.completion_percentage,
                    !.is_completed = updateData.is_completed,
                    !.completed_at = IF updateData.completed_at = Undef THEN @
                                     ELSE updateData.completed_at]]
  ELSE table

\* getModuleProgress returned null
NullProgress ==
  [trainingModuleId |-> Null, startTime |-> Null, completedTime |-> Null,
   completionPercentage |-> 0, completionStatus |-> Null]

\* what getModuleProgress returns for the row of a pair (lines 317-330):
\* null when there is no row
ModuleProgress(key) ==
  LET data == trainingProgress[key]
  IN IF ~data.exists THEN NullProgress
     ELSE [trainingModuleId |-> key[2],
           startTime |-> data.started_at,
           completedTime |-> data.completed_at,
           completionPercentage |-> data.completion_percentage,
           completionStatus |->
             IF data.is_completed THEN "completed"
             ELSE IF data.started_at # Null THEN "in_progress" ELSE "not_started"]

IdleSv ==
  [pc |-> "idle", op |-> "none", key |-> <<Null, Null>>, input |-> 0,
   data |-> UpdateData(0, FALSE), outcome |-> "none", result |-> "none"]

\* history: what a service call that wrote the table was
Entry(c) ==
  [op |-> c.op, key |-> c.key, input |-> c.input, isCompleted |-> c.data.is_completed]

\* startTrainingModule(profileId, trainingModuleId), to its await (lines 253-269)
StartTrainingModuleCall(key) ==
  /\ sv.pc = "idle"
  /\ Len(trace) < MaxTrace
  /\ sv' = [IdleSv EXCEPT !.pc = "upsert", !.op = "start", !.key = key,
                          !.result = "pending"]
  /\ UNCHANGED <<trainingProgress, trace, index, progress, fx>>
  /\ UNCHANGED <<bkVars, authVars, dirVars>>

\* the upsert settles (line 271)
StartTrainingModuleUpsert ==
  /\ sv.pc = "upsert"
  /\ \E o \in Outcomes :
       /\ sv' = [sv EXCEPT !.pc = "idle", !.outcome = o,
                           !.result = IF o = "ok" THEN "resolved" ELSE "rejected"]
       /\ trainingProgress' = IF o = "ok" THEN Upsert(trainingProgress, sv.key)
                              ELSE trainingProgress
       /\ trace' = IF o = "ok" THEN Append(trace, Entry(sv)) ELSE trace
  /\ UNCHANGED <<index, progress, fx>>
  /\ UNCHANGED <<bkVars, authVars, dirVars>>

\* updateTrainingProgress(profileId, trainingModuleId, completionPercentage,
\* isCompleted), to its await (lines 275-294)
UpdateTrainingProgressCall(key, completionPercentage, isCompleted) ==
  /\ sv.pc = "idle"
  /\ Len(trace) < MaxTrace
  /\ sv' = [IdleSv EXCEPT !.pc = "update", !.op = "update", !.key = key,
                          !.input = completionPercentage,
                          !.data = UpdateData(completionPercentage, isCompleted),
                          !.result = "pending"]
  /\ UNCHANGED <<trainingProgress, trace, index, progress, fx>>
  /\ UNCHANGED <<bkVars, authVars, dirVars>>

\* completeTrainingModule: updateTrainingProgress(profileId, trainingModuleId,
\* 100, true) (lines 300-305)
CompleteTrainingModuleCall(key) ==
  /\ sv.pc = "idle"
  /\ Len(trace) < MaxTrace
  /\ sv' = [IdleSv EXCEPT !.pc = "update", !.op = "complete", !.key = key,
                          !.input = 100, !.data = UpdateData(100, TRUE),
                          !.result = "pending"]
  /\ UNCHANGED <<trainingProgress, trace, index, progress, fx>>
  /\ UNCHANGED <<bkVars, authVars, dirVars>>

\* the update settles (line 296)
UpdateTrainingProgressUpdate ==
  /\ sv.pc = "update"
  /\ \E o \in Outcomes :
       /\ sv' = [sv EXCEPT !.pc = "idle", !.outcome = o,
                           !.result = IF o = "ok" THEN "resolved" ELSE "rejected"]
       /\ trainingProgress' = IF o = "ok" THEN Update(trainingProgress, sv.key, sv.data)
                              ELSE trainingProgress
       /\ trace' = IF o = "ok" THEN Append(trace, Entry(sv)) ELSE trace
  /\ UNCHANGED <<index, progress, fx>>
  /\ UNCHANGED <<bkVars, authVars, dirVars>>

(***************************************************************************)
(* TrainingPlayer: its load effect and its update effect                   *)
(***************************************************************************)
\* the videos of the program being played
Videos == <<"v1", "v2", "v3">>

\* videos.length
VideoCount == Len(Videos)

\* getTrainingModuleId(programSlug) for the program being played
TrainingModuleId == "training_mtm"

\* Math.round(((index + 1) / videos.length) * 100)
CompletionPercentage(i) == (200 * (i + 1) + VideoCount) \div (2 * VideoCount)

\* what the update effect sends for a video index (lines 197-204)
EffectData(i) ==
  IF i >= VideoCount - 1 THEN UpdateData(100, TRUE)
  ELSE UpdateData(CompletionPercentage(i), FALSE)

IdleFx == [pc |-> "idle", key |-> <<Null, Null>>, data |-> UpdateData(0, FALSE),
           outcome |-> "none"]

\* a run of the update effect, to its first await (lines 192-204)
UpdateEffectRun(i) ==
  [IdleFx EXCEPT !.pc = "write", !.key = <<currentProfile.id, TrainingModuleId>>,
                 !.data = EffectData(i)]

\* the player mounts for the active profile: both effects run (lines 166-215)
TrainingPlayerMount ==
  /\ currentProfile.id # Null
  /\ fx["load"].pc = "idle" /\ fx["update"].pc = "idle"
  /\ index' = 0
  /\ progress' = NullProgress
  /\ fx' = [load |-> [IdleFx EXCEPT !.pc = "get",
                                    !.key = <<currentProfile.id, TrainingModuleId>>],
            update |-> UpdateEffectRun(0)]
  /\ UNCHANGED <<trainingProgress, sv, trace>>
  /\ UNCHANGED <<bkVars, authVars, dirVars>>

\* handleNext / handlePrev (lines 234-235): the update effect runs for the
\* new index; one run of the update effect is in flight at a time
Navigate(next) ==
  /\ fx["load"].key[1] # Null
  /\ fx["update"].pc = "idle"
  /\ index' = IF next THEN Min(VideoCount - 1, index + 1) ELSE Max(0, index - 1)
  /\ index' # index
  /\ fx' = [fx EXCEPT !["update"] = UpdateEffectRun(index')]
  /\ UNCHANGED <<trainingProgress, sv, trace, progress>>
  /\ UNCHANGED <<bkVars, authVars, dirVars>>

\* load effect: the first getModuleProgress settles (lines 174-178, 183-185)
LoadEffectGet ==
  /\ fx["load"].pc = "get"
  /\ \E o \in Outcomes :
       LET moduleProgress == ModuleProgress(fx["load"].key)
       IN IF o = "ok"
          THEN /\ progress' = moduleProgress
               /\ fx' = [fx EXCEPT !["load"].outcome = o,
                                   !["load"].pc = IF moduleProgress = NullProgress
                                                     /\ VideoCount > 0
                                                  THEN "start" ELSE "idle"]
          ELSE /\ fx' = [fx EXCEPT !["load"].outcome = o, !["load"].pc = "idle"]
               /\ UNCHANGED progress
  /\ UNCHANGED <<trainingProgress, sv, trace, index>>
  /\ UNCHANGED <<bkVars, authVars, dirVars>>

\* load effect: startTrainingModule settles (lines 179, 183-185)
LoadEffectStart ==
  /\ fx["load"].pc = "start"
  /\ \E o \in Outcomes :
       /\ fx' = [fx EXCEPT !["load"].outcome = o,
                           !["load"].pc = IF o = "ok" THEN "get2" ELSE "idle"]
       /\ trainingProgress' = IF o = "ok" THEN Upsert(trainingProgress, fx["load"].key)
                              ELSE trainingProgress
  /\ UNCHANGED <<sv, trace, index, progress>>
  /\ UNCHANGED <<bkVars, authVars, dirVars>>

\* load effect: the second getModuleProgress settles (lines 180-185)
LoadEffectGetAgain ==
  /\ fx["load"].pc = "get2"
  /\ \E o \in Outcomes :
       /\ fx' = [fx EXCEPT !["load"].outcome = o, !["load"].pc = "idle"]
       /\ progress' = IF o = "ok" THEN ModuleProgress(fx["load"].key) ELSE progress
  /\ UNCHANGED <<trainingProgress, sv, trace, index>>
  /\ UNCHANGED <<bkVars, authVars, dirVars>>

\* update effect: completeTrainingModule / updateTrainingProgress settles
\* (lines 200-204, 209-211)
UpdateEffectWrite ==
  /\ fx["update"].pc = "write"
  /\ \E o \in Outcomes :
       /\ fx' = [fx EXCEPT !["update"].outcome = o,
                           !["update"].pc = IF o = "ok" THEN "get" ELSE "idle"]
       /\ trainingProgress' =
            IF o = "ok" THEN Update(trainingProgress, fx["update"].key, fx["update"].data)
            ELSE trainingProgress
  /\ UNCHANGED <<sv, trace, index, progress>>
  /\ UNCHANGED <<bkVars, authVars, dirVars>>

\* update effect: getModuleProgress settles (lines 207-211)
UpdateEffectGet ==
  /\ fx["update"].pc = "get"
  /\ \E o \in Outcomes :
       /\ fx' = [fx EXCEPT !["update"].outcome = o, !["update"].pc = "idle"]
       /\ progress' = IF o = "ok" THEN ModuleProgress(fx["update"].key) ELSE progress
  /\ UNCHANGED <<trainingProgress, sv, trace, index>>
  /\ UNCHANGED <<bkVars, authVars, dirVars>>

TrainIdle ==
  /\ trainingProgress = [k \in TrainingKeys |-> NoRow]
  /\ sv = IdleSv
  /\ trace = <<>>
  /\ index = 0
  /\ progress = NullProgress
  /\ fx = [e \in {"load", "update"} |-> IdleFx]

(***************************************************************************)
(* Initial states of the stores                                            *)
(***************************************************************************)
AuthInit ==
  /\ isInitialized = FALSE /\ session = Null /\ user = Null /\ account = NullAccount
  /\ authSession \in Users \cup {Null}
  /\ accounts = [u \in Users |-> InitialRow(u)]
  /\ lg = IdleLg /\ lo = IdleLo /\ ua = IdleUa
  /\ cs = [k \in CsCalls |-> IdleCs]

\* the auth store as constructed, with nobody signed in
AuthIdle == AuthInit /\ authSession = Null

BkIdle ==
  /\ bookmarkedResources = EmptyMap
  /\ loading = FALSE
  /\ bookmarks = [k \in Profiles \X ResourceIds |-> 0]
  /\ currentProfile = NullProfile
  /\ savedProfile = NoItem
  /\ tg = [i \in TgCalls |-> IdleTg]
  /\ ld = [j \in LdCalls |-> IdleLd]
  /\ run = NoRun

(***************************************************************************)
(* Specifications of the bookmark store                                    *)
(***************************************************************************)
\* the table at start: at most one row per pair; "P" holds a row for "c9",
\* whose catalog row is gone
InitialTables ==
  { t \in [Profiles \X ResourceIds -> 0..1] :
      t[<<"P", "c9">>] = 1 /\ t[<<"Q", "c9">>] = 0 }

BkInit ==
  /\ bookmarkedResources = EmptyMap
  /\ loading = FALSE
  /\ bookmarks \in InitialTables
  /\ currentProfile = NullProfile
  /\ savedProfile = NoItem
  /\ tg = [i \in TgCalls |-> IdleTg]
  /\ ld = [j \in LdCalls |-> IdleLd]
  /\ run = NoRun

Init == BkInit /\ AuthIdle /\ DirIdle /\ TrainIdle

\* ResourceCard.handleBookmarkToggle, one operation at a time
handleBookmarkToggle(r) == Quiet /\ ToggleBookmarkCall("t1", r)

\* the user picks another active profile (or none), one operation at a time
SwitchProfile(p) == Quiet /\ SetCurrentProfile(p, "l1")

\* the panel is mounted again, one operation at a time
MountPanel == Quiet /\ PanelMount("l1")

\* the bookmark store in sequential use: the UI awaits each operation before
\* it starts the next one
Next ==
  \/ \E r \in Resources : handleBookmarkToggle(r)
  \/ ToggleBookmarkLookup("t1")
  \/ ToggleBookmarkDelete("t1")
  \/ ToggleBookmarkInsert("t1")
  \/ LoadBookmarksSelect("l1")
  \/ \E p \in {ProfileOf(id) : id \in Profiles} \cup {NullProfile} : SwitchProfile(p)
  \/ MountPanel

Spec == Init /\ [][Next]_vars

(***************************************************************************)
(* Properties of the bookmark store                                        *)
(***************************************************************************)
\* a toggleBookmark call settles in this step
TgSettles(i) == tg[i].pc \in {"lookup", "delete", "insert"} /\ tg'[i].pc = "idle"

\* a loadBookmarks call settles in this step
LdSettles(j) == ld[j].pc = "select" /\ ld'[j].pc = "idle"

\* C1 (as claimed): when the remote insert or delete of a toggleBookmark call
\* fails, the cache after the call equals the cache before it and the call
\* throws.
C1_FailedToggleKeepsCache ==
  [][\A i \in TgCalls :
       (tg[i].pc \in {"delete", "insert"} /\ tg'[i].pc = "idle"
          /\ tg'[i].outcome \in {"err", "throw"})
       => (bookmarkedResources' = bookmarkedResources /\ tg'[i].result = "rejected")]_vars

\* the cache and the rows of profile p agree: a path is cached exactly when p
\* holds a row for the catalog id of that path, and that id is the cached one
Converged(p) ==
  /\ \A path \in DOMAIN bookmarkedResources :
       LET id == bookmarkedResources[path]
       IN /\ bookmarks[<<p, id>>] > 0
          /\ id \in DOMAIN Catalog
          /\ Normalize(Catalog[id].file_path) = path
  /\ \A id \in DOMAIN Catalog :
       bookmarks[<<p, id>>] > 0 =>
         LET path == Normalize(Catalog[id].file_path)
         IN path \in DOMAIN bookmarkedResources /\ bookmarkedResources[path] = id

\* C2 (as claimed): after every toggleBookmark call that returns normally and
\* every loadBookmarks call that got its rows, for the active profile, the
\* cache and the remote table agree.
C2_CallsConverge ==
  [][\A i \in TgCalls, j \in LdCalls :
       /\ (TgSettles(i) /\ tg'[i].result = "resolved" /\ tg[i].profileId = currentProfile.id)
            => Converged(currentProfile.id)'
       /\ (LdSettles(j) /\ ld'[j].outcome = "ok" /\ ld[j].profileId = currentProfile.id)
            => Converged(currentProfile.id)']_vars

\* C3: in a run of sequential toggleBookmark calls on one (profile, path) that
\* starts with the path not bookmarked, after n calls have returned normally
\* isBookmarked(path) is true exactly when n is odd.
C3_ToggleParity ==
  run.path # <<>> => (isBookmarked(run.path) <=> run.n % 2 = 1)

C3_Witness == run.n >= 2 /\ ~isBookmarked(run.path)

\* C4 (as claimed): once a switch of the active profile has been processed
\* (its load has settled; no toggle has been made yet), a resource that only
\* another profile has bookmarked is not bookmarked in the cache.
C4_SwitchDropsOtherProfile ==
  (currentProfile # NullProfile /\ Quiet /\ \A i \in TgCalls : tg[i].result = "none") =>
    \A id \in DOMAIN Catalog :
      ( /\ bookmarks[<<currentProfile.id, id>>] = 0
        /\ \E p \in Profiles \ {currentProfile.id} : bookmarks[<<p, id>>] > 0 )
      => ~isBookmarked(Normalize(Catalog[id].file_path))

\* rows a settling load was given that carry a catalog path
RowsWithPath(profileId) ==
  {b \in BookmarkRows(profileId) :
     b.storage_files_catalog.id # Null /\ b.storage_files_catalog.file_path # <<>>}

NoCatalogEntry(path) == \A c \in DOMAIN Catalog : Catalog[c].file_path # path

\* C13: toggleBookmark on a resource that is not bookmarked, carries no catalog
\* id and has no catalog entry fails once the lookup settles, with the
\* resource-not-found error when the catalog answered (with the request's own
\* error when the request was rejected), and inserts no row and leaves the
\* cache as it was.
C13_UnknownResourceRejected ==
  [][\A i \in TgCalls :
       (tg[i].pc = "lookup" /\ tg'[i] # tg[i] /\ NoCatalogEntry(tg[i].resource.path))
       => /\ tg'[i].pc = "idle" /\ tg'[i].result = "rejected"
          /\ tg'[i].outcome # "throw" => tg'[i].error = "ResourceNotFound"
          /\ bookmarks' = bookmarks
          /\ bookmarkedResources' = bookmarkedResources]_vars

\* the catalog answered a lookup with no row, and the call was rejected
C13_Witness ==
  /\ tg["t1"].pc = "idle" /\ tg["t1"].outcome = "ok"
  /\ tg["t1"].result = "rejected" /\ tg["t1"].error = "ResourceNotFound"

\* C27: a loadBookmarks call whose select fails (an error in the result or a
\* rejected request) returns normally, leaves the cache exactly as it was and
\* sets loading to false.
C27_FailedLoadKeepsCache ==
  [][\A j \in LdCalls :
       (LdSettles(j) /\ ld'[j].outcome \in {"err", "throw"})
       => /\ ld'[j].result = "resolved"
          /\ bookmarkedResources' = bookmarkedResources
          /\ loading' = FALSE]_vars

\* the load for "Q" failed, and the cache still holds "a", which "P" has
\* bookmarked and "Q" has not
C27_Witness ==
  /\ ld["l1"].pc = "idle" /\ ld["l1"].outcome = "err"
  /\ currentProfile = ProfileOf("Q")
  /\ isBookmarked(<<"a">>)
  /\ bookmarks[<<"P", "c1">>] = 1 /\ bookmarks[<<"Q", "c1">>] = 0
  /\ ~loading

(***************************************************************************)
(* Items whose catalog id is out of date                                   *)
(***************************************************************************)
\* an item of "a" that still carries "c9", the id the file had in the catalog
\* before it was catalogued again as "c1"
StaleItem == [path |-> <<"a">>, catalogId |-> "c9"]

\* profile "P" is active and the panel is not mounted yet; "P" still holds a
\* bookmark row for "c9"
ItemStart ==
  /\ bookmarkedResources = EmptyMap
  /\ loading = FALSE
  /\ bookmarks \in { t \in InitialTables : \A id \in ResourceIds : t[<<"Q", id>>] = 0 }
  /\ currentProfile = ProfileOf("P")
  /\ savedProfile = ItemOf(ProfileOf("P"))
  /\ tg = [i \in TgCalls |-> IdleTg]
  /\ ld = [j \in LdCalls |-> IdleLd]
  /\ run = NoRun
  /\ AuthIdle /\ DirIdle /\ TrainIdle

ItemNext ==
  \/ \E r \in {[path |-> <<"a">>, catalogId |-> NoId], StaleItem} : handleBookmarkToggle(r)
  \/ ToggleBookmarkLookup("t1")
  \/ ToggleBookmarkDelete("t1")
  \/ ToggleBookmarkInsert("t1")
  \/ MountPanel
  \/ LoadBookmarksSelect("l1")

ItemSpec == ItemStart /\ [][ItemNext]_vars

\* C21: a toggleBookmark call on a bookmarked path sends the delete without
\* querying the catalog and with the cache untouched; the delete removes the
\* rows of (profileId, the id the cache holds for the path), whatever catalogId
\* the argument carries; and the path leaves the cache in the step in which
\* the delete returns.
C21_RemoveUsesCachedId ==
  [][\A i \in TgCalls :
       /\ (tg[i].pc = "idle" /\ tg'[i] # tg[i] /\ tg'[i].wasBookmarked)
            => /\ tg'[i].pc = "delete"
               /\ bookmarkedResources' = bookmarkedResources
               /\ bookmarks' = bookmarks
       /\ (tg[i].pc = "delete" /\ tg'[i].pc = "idle")
            => LET path == tg[i].resource.path
                   cached == bookmarkedResources[path]
               IN /\ path \in DOMAIN bookmarkedResources
                  /\ tg'[i].outcome = "ok" =>
                       bookmarks' = [bookmarks EXCEPT ![<<tg[i].profileId, cached>>] = 0]
                  /\ tg'[i].outcome # "throw" => path \notin DOMAIN bookmarkedResources'
                  /\ tg'[i].outcome = "throw" => bookmarkedResources' = bookmarkedResources]_vars

\* the delete of "a", cached with "c1", is in flight for the item that
\* carries "c9", and both rows are in the table
C21_Witness ==
  /\ tg["t1"].pc = "delete" /\ tg["t1"].resource = StaleItem
  /\ bookmarkedResources[<<"a">>] = "c1"
  /\ bookmarks[<<"P", "c1">>] = 1 /\ bookmarks[<<"P", "c9">>] = 1

(***************************************************************************)
(* Overlapping toggleBookmark calls of one profile                         *)
(***************************************************************************)
\* profile "P" is active, its bookmarks are loaded and it has none; the UI
\* does not wait for a toggle before it starts the next one
RaceStart ==
  /\ bookmarkedResources = EmptyMap
  /\ loading = FALSE
  /\ bookmarks = [k \in Profiles \X ResourceIds |-> 0]
  /\ currentProfile = ProfileOf("P")
  /\ savedProfile = ItemOf(ProfileOf("P"))
  /\ tg = [i \in TgCalls |-> IdleTg]
  /\ ld = [j \in LdCalls |-> IdleLd]
  /\ run = NoRun
  /\ AuthIdle /\ DirIdle /\ TrainIdle

RaceNext ==
  \/ \E i \in TgCalls, r \in Resources : ToggleBookmarkCall(i, r)
  \/ \E i \in TgCalls : ToggleBookmarkLookup(i)
  \/ \E i \in TgCalls : ToggleBookmarkDelete(i)
  \/ \E i \in TgCalls : ToggleBookmarkInsert(i)

RaceSpec == RaceStart /\ [][RaceNext]_vars

\* C14 (as claimed): the bookmarks table never holds two rows for the same
\* (profile, resource), also when two toggleBookmark calls overlap.
C14_NoDuplicateRows ==
  \A k \in Profiles \X ResourceIds : bookmarks[k] <= 1

\* C23 (as claimed): a toggleBookmark call that returns successfully writes a
\* cache derived from the cache at that moment, so that overlapping calls on
\* different resources keep each other's update: the cache after the call is
\* the cache before its last step with the call's own path added or removed.
C23_OverlappingTogglesKeepUpdates ==
  [][\A i \in TgCalls :
       (tg[i].pc \in {"delete", "insert"} /\ tg'[i].pc = "idle" /\ tg'[i].outcome = "ok")
       => bookmarkedResources' =
            IF tg[i].wasBookmarked
            THEN MapDelete(bookmarkedResources, tg[i].resource.path)
            ELSE MapSet(bookmarkedResources, tg[i].resource.path, tg[i].catalogId)]_vars

(***************************************************************************)
(* Profile switches while bookmarks are loading                            *)
(***************************************************************************)
\* the user switches the active profile without waiting for the load the
\* panel started for the previous one; at most two loads are in flight
SwitchNext ==
  \/ \E p \in {ProfileOf(id) : id \in Profiles} \cup {NullProfile}, j \in LdCalls :
       SetCurrentProfile(p, j)
  \/ \E j \in LdCalls : LoadBookmarksSelect(j)

SwitchSpec == Init /\ [][SwitchNext]_vars

\* C24 (as claimed): the response of a loadBookmarks call for the active
\* profile puts that profile's bookmarks into the cache, whichever response
\* arrives last, and a response for a profile that another profile has
\* replaced as the active one leaves the cache as it is.
C24_LateLoadIgnored ==
  [][\A j \in LdCalls :
       (LdSettles(j) /\ currentProfile # NullProfile) =>
         IF ld[j].profileId = currentProfile.id
         THEN ld'[j].outcome = "ok" =>
                bookmarkedResources' = BuildMap(BookmarkRows(currentProfile.id), EmptyMap)
         ELSE bookmarkedResources' = bookmarkedResources]_vars

(***************************************************************************)
(* Specifications of the auth store                                        *)
(***************************************************************************)
AuthNext ==
  \/ CheckSessionCall
  \/ \E k \in CsCalls : CheckSessionGetSession(k)
  \/ \E k \in CsCalls : CheckSessionFetchAccount(k)
  \/ \E cred \in Credentials : LoginCall(cred)
  \/ LoginSignIn
  \/ LogoutCall
  \/ LogoutSignOut

AuthStart == AuthInit /\ BkIdle /\ DirIdle /\ TrainIdle

AuthSpec == AuthStart /\ [][AuthNext]_vars

\* a remote request settles, so the continuation of a pending checkSession runs
AuthFairness ==
  \A k \in CsCalls :
    /\ WF_vars(CheckSessionGetSession(k))
    /\ WF_vars(CheckSessionFetchAccount(k))

AuthLiveSpec == AuthSpec /\ AuthFairness

\* C26 (as claimed): after any sequence of login, logout and checkSession
\* calls, none of them still in flight, whenever account is non-null, session
\* and user are non-null and the account is the one of the signed-in user.
C26_AccountOfUser ==
  (AuthQuiet /\ account # NullAccount) =>
    /\ session # Null
    /\ user # Null
    /\ account.id = user

\* updateAccount on the account screen of a signed-in user, who may sign out
AcctStart ==
  /\ BkIdle /\ DirIdle /\ TrainIdle
  /\ isInitialized = TRUE /\ session = "u1" /\ user = "u1"
  /\ account = mapRowToAccount(InitialRow("u1"))
  /\ authSession = "u1"
  /\ accounts = [u \in Users |-> InitialRow(u)]
  /\ lg = IdleLg /\ lo = IdleLo /\ ua = IdleUa
  /\ cs = [k \in CsCalls |-> IdleCs]

AcctNext ==
  \/ \E patch \in Patches : UpdateAccountCall(patch)
  \/ UpdateAccountUpdate
  \/ LogoutCall
  \/ LogoutSignOut

AcctSpec == AcctStart /\ [][AcctNext]_vars

(***************************************************************************)
(* Properties of the auth store                                            *)
(***************************************************************************)
\* C6: every checkSession() call eventually settles with isInitialized true,
\* whether the session read or the account fetch succeeds, fails or throws.
C6_CheckSessionInitializes ==
  \A k \in CsCalls :
    (cs[k].pc # "idle") ~> (cs[k].pc = "idle" /\ isInitialized)

\* a checkSession whose request was rejected has settled, initialized
C6_Witness ==
  \E k \in CsCalls :
    cs[k].pc = "idle" /\ cs[k].outcome = "throw" /\ isInitialized /\ session # Null

\* C7 (as claimed): when the account fetch of checkSession fails, the call
\* ends initialized with account null, whatever account held before.
C7_FetchFailureNullsAccount ==
  [][\A k \in CsCalls :
       (cs[k].pc = "fetchAccount" /\ cs'[k].pc = "idle" /\ cs'[k].outcome # "ok")
       => (isInitialized' /\ account' = NullAccount)]_vars

\* C8 (as claimed): logout() of a signed-in user does not throw and leaves
\* session, user and account null, however the remote sign-out ends.
C8_LogoutLocalFirst ==
  [][(lo.pc = "signOut" /\ lo'.pc = "idle" /\ session # Null)
       => /\ lo'.result = "resolved"
          /\ session' = Null /\ user' = Null /\ account' = NullAccount]_vars

\* C9: login with bad credentials sends one sign-in request, rejects with the
\* error the remote gave, starts no checkSession, and leaves session, user,
\* account and isInitialized as they were.
C9_BadLoginSurfaces ==
  [][(lg.pc = "signIn" /\ lg.cred = "bad" /\ lg' # lg)
       => /\ lg'.pc = "idle" /\ lg'.result = "rejected"
          /\ lg'.error = AuthError("bad", lg'.outcome)
          /\ lg'.attempts = 1
          /\ cs' = cs
          /\ UNCHANGED <<session, user, account, isInitialized>>]_vars

\* a login with bad credentials was rejected while a user was signed in
C9_Witness ==
  /\ lg.pc = "idle" /\ lg.cred = "bad" /\ lg.result = "rejected"
  /\ lg.error = "InvalidCredentials"
  /\ session # Null /\ account # NullAccount

\* the state of the session manager: a checkSession call is running, or none
\* has finished yet, or the last one left a session or none
Phase ==
  IF \E k \in CsCalls : cs[k].pc # "idle" THEN "Initializing"
  ELSE IF ~isInitialized THEN "Uninitialized"
  ELSE IF session # Null THEN "Authenticated"
  ELSE "Anonymous"

\* a checkSession call settles in this step
CsSettles(k) == cs[k].pc # "idle" /\ cs'[k].pc = "idle"

\* the steps of Uninitialized -> Initializing -> {Authenticated, Anonymous}:
\* Initializing is entered only by a checkSession call, Authenticated goes to
\* Anonymous directly only by logout, and isInitialized is set by the step
\* that settles a checkSession call and by no other step
MachineStep ==
  /\ Phase = "Uninitialized" => Phase' \in {"Uninitialized", "Initializing"}
  /\ Phase = "Initializing" => Phase' \in {"Initializing", "Authenticated", "Anonymous"}
  /\ Phase = "Anonymous" => Phase' \in {"Anonymous", "Initializing"}
  /\ Phase = "Authenticated" =>
       \/ Phase' \in {"Authenticated", "Initializing"}
       \/ Phase' = "Anonymous" /\ lo.pc = "signOut" /\ lo'.pc = "idle" /\ isInitialized'
  /\ \A k \in CsCalls : CsSettles(k) => isInitialized'
  /\ isInitialized' # isInitialized => \E k \in CsCalls : CsSettles(k)

\* C20 (as claimed): the session manager follows Uninitialized ->
\* Initializing -> {Authenticated, Anonymous}; a logout() that finishes takes
\* Authenticated to Anonymous with isInitialized still true; only a
\* checkSession() call leads back into Initializing; and each checkSession()
\* call sets isInitialized once, when it settles.
C20_SessionMachine ==
  [][/\ MachineStep
     /\ (Phase = "Authenticated" /\ lo.pc = "signOut" /\ lo'.pc = "idle")
          => (Phase' = "Anonymous" /\ isInitialized')]_vars

\* the column of `accounts` behind a field of Account
Column(f) ==
  CASE f = "pharmacyName" -> "pharmacy_name"
    [] f = "pharmacyPhone" -> "pharmacy_phone"
    [] f = "subscriptionStatus" -> "subscription_status"
    [] OTHER -> f

\* C10 (as claimed): an updateAccount(patch) that succeeds leaves every field
\* the patch does not mention at its stored value, in the remote row and in
\* the returned Account.
C10_UpdateWritesOnlyPatch ==
  [][(ua.pc = "update" /\ ua'.pc = "idle" /\ ua'.outcome = "ok")
       => \A f \in PatchFields :
            ua.patch[f] = Undef =>
              /\ accounts'[ua.userId][Column(f)] = accounts[ua.userId][Column(f)]
              /\ ua'.returned[f] = mapRowToAccount(accounts[ua.userId])[f]]_vars

(***************************************************************************)
(* Specification of the profile directory                                  *)
(***************************************************************************)
\* the profile store as constructed in a tab of the signed-in account "u1":
\* the tab holds no selection, or the one saved before a reload
DirStart ==
  /\ bookmarkedResources = EmptyMap
  /\ loading = FALSE
  /\ bookmarks = [k \in Profiles \X ResourceIds |-> 0]
  /\ savedProfile \in {NoItem, ItemOf(ProfileOf("P"))}
  /\ currentProfile = loadSavedProfile
  /\ tg = [i \in TgCalls |-> IdleTg]
  /\ ld = [j \in LdCalls |-> IdleLd]
  /\ run = NoRun
  /\ isInitialized = TRUE /\ session = "u1" /\ user = "u1"
  /\ account = mapRowToAccount(InitialRow("u1"))
  /\ authSession = "u1"
  /\ accounts = [u \in Users |-> InitialRow(u)]
  /\ lg = IdleLg /\ lo = IdleLo /\ ua = IdleUa
  /\ cs = [k \in CsCalls |-> IdleCs]
  /\ DirIdle /\ TrainIdle

\* the profiles the UI can pass to setCurrentProfile
Listed == {profiles[i] : i \in DOMAIN profiles}

DirNext ==
  \/ LoadProfilesCall
  \/ LoadProfilesSelect
  \/ \E data \in ProfileData : AddProfileCall(data)
  \/ AddProfileInsert
  \/ RefreshCurrentProfileCall
  \/ RefreshCurrentProfileSelect
  \/ \E p \in Listed \cup {NullProfile} : SelectProfile(p)

DirSpec == DirStart /\ [][DirNext]_vars

(***************************************************************************)
(* Reload of the page                                                      *)
(***************************************************************************)
\* the JSON text of a profile cut off inside its third member
Truncated(p) ==
  LET text == JSONStringify(p)
  IN <<text[1], text[2], [k |-> text[3].k, t |-> "bad", v |-> ""]>>

\* what the key may hold when the page loads: nothing, the empty string, a
\* text cut short, or the text of a profile
StoredItems ==
  { NoItem,
    [present |-> TRUE, text |-> <<>>],
    [present |-> TRUE, text |-> Truncated(ProfileOf("P"))],
    ItemOf(ProfileOf("P")),
    ItemOf(ProfileOf("Q")) }

\* the page is loaded again: every store is constructed anew, the profile
\* store with currentProfile: loadSavedProfile() and profiles: []; what the
\* tab and the server hold stays
Reload(access) ==
  LET r == LoadSavedProfile(access)
  IN /\ ~r.threw
     /\ currentProfile' = r.value
     /\ profiles' = <<>>
     /\ lp' = IdleLp /\ ap' = IdleAp /\ rf' = IdleRf /\ hd' = IdleHd
     /\ bookmarkedResources' = EmptyMap /\ loading' = FALSE
     /\ tg' = [i \in TgCalls |-> IdleTg]
     /\ ld' = [j \in LdCalls |-> IdleLd]
     /\ run' = NoRun
     /\ isInitialized' = FALSE /\ session' = Null /\ user' = Null
     /\ account' = NullAccount
     /\ lg' = IdleLg /\ lo' = IdleLo /\ ua' = IdleUa
     /\ cs' = [k \in CsCalls |-> IdleCs]
     /\ sv' = IdleSv /\ index' = 0 /\ progress' = NullProgress
     /\ fx' = [e \in {"load", "update"} |-> IdleFx]
     /\ UNCHANGED <<savedProfile, bookmarks, authSession, accounts, memberProfiles,
                    trainingProgress, trace>>

\* a tab of the signed-in user "u1", whose session has been checked and whose
\* key holds any of the stored items
RestoreStart ==
  /\ savedProfile \in StoredItems
  /\ \E access \in Accesses : currentProfile = LoadSavedProfile(access).value
  /\ bookmarkedResources = EmptyMap
  /\ loading = FALSE
  /\ bookmarks = [k \in Profiles \X ResourceIds |-> 0]
  /\ tg = [i \in TgCalls |-> IdleTg]
  /\ ld = [j \in LdCalls |-> IdleLd]
  /\ run = NoRun
  /\ isInitialized = TRUE /\ session = "u1" /\ user = "u1"
  /\ account = mapRowToAccount(InitialRow("u1"))
  /\ authSession = "u1"
  /\ accounts = [u \in Users |-> InitialRow(u)]
  /\ lg = IdleLg /\ lo = IdleLo /\ ua = IdleUa
  /\ cs = [k \in CsCalls |-> IdleCs]
  /\ DirIdle /\ TrainIdle

RestoreNext ==
  \/ \E access \in Accesses : Reload(access)
  \/ CheckSessionCall
  \/ CheckSessionGetSession("mount")
  \/ CheckSessionFetchAccount("mount")
  \/ LoadProfilesCall
  \/ LoadProfilesSelect
  \/ \E p \in Listed \cup {NullProfile} : SelectProfile(p)

RestoreSpec == RestoreStart /\ [][RestoreNext]_vars

\* the stored item gives no profile: there is none, it is empty or it does
\* not parse
Unusable ==
  ~savedProfile.present \/ savedProfile.text = <<>> \/ ParseThrows(savedProfile.text)

\* C22: loadSavedProfile never throws, whatever the key holds and also when
\* the storage read throws; a reload constructs the profile store with no
\* profiles and with currentProfile null when the read threw or the item is
\* missing, empty or unparseable, and with the parsed profile otherwise.
C22_RestoreNeverThrows ==
  [][\A access \in Accesses :
       /\ ~LoadSavedProfile(access).threw
       /\ (access = "denied" \/ Unusable) => LoadSavedProfile(access).value = NullProfile
       /\ Reload(access) =>
            /\ profiles' = <<>>
            /\ currentProfile' = IF access = "denied" \/ Unusable THEN NullProfile
                                  ELSE JSONParse(savedProfile.text)]_vars

\* the page was loaded again while the key held a text cut short: the stores
\* are constructed, no profile is active and the session is not checked yet
C22_Witness ==
  /\ ParseThrows(savedProfile.text)
  /\ currentProfile = NullProfile
  /\ ~isInitialized /\ profiles = <<>>
  /\ authSession = "u1"

(***************************************************************************)
(* Sign-out and sign-in in a tab that has an active profile                *)
(***************************************************************************)
\* the auth store and the profile store used in one tab
TabNext ==
  \/ CheckSessionCall
  \/ \E k \in CsCalls : CheckSessionGetSession(k)
  \/ \E k \in CsCalls : CheckSessionFetchAccount(k)
  \/ \E cred \in Credentials : LoginCall(cred)
  \/ LoginSignIn
  \/ LogoutCall
  \/ LogoutSignOut
  \/ LoadProfilesCall
  \/ LoadProfilesSelect
  \/ \E p \in Listed \cup {NullProfile} : SelectProfile(p)

TabSpec == DirStart /\ [][TabNext]_vars

\* C25 (as claimed): whenever an account is signed in, the active profile, in
\* memory and as persisted, is null or a profile of that account.
C25_ProfileOfAccount ==
  account # NullAccount =>
    /\ currentProfile = NullProfile \/ currentProfile.accountId = account.id
    /\ loadSavedProfile = NullProfile \/ loadSavedProfile.accountId = account.id

(***************************************************************************)
(* Deleting profiles on the account screen                                 *)
(***************************************************************************)
\* the account screen: the list is loaded, a listed profile is made active,
\* a listed profile is deleted; the dialog of a deletion is modal
DeleteNext ==
  \/ LoadProfilesCall
  \/ LoadProfilesSelect
  \/ \E p \in Listed : hd.pc = "idle" /\ SelectProfile(p)
  \/ \E p \in Listed : HandleDeleteCall(p)
  \/ HandleDeleteDelete
  \/ HandleDeleteLoad

DeleteSpec == DirStart /\ [][DeleteNext]_vars

\* the profile is null or its row is in the table: it has not been deleted
NotDeleted(p) ==
  p = NullProfile \/ \E i \in DOMAIN memberProfiles : memberProfiles[i].id = p.id

\* C30 (as claimed): the active profile, in memory and as persisted, never
\* refers to a profile that was deleted on the account screen; when the
\* delete of handleDelete has returned and the deleted profile was the active
\* one, the active profile is the first remaining profile or null; when the
\* delete failed, the active profile, the persisted selection and the profile
\* set are as before.
C30_DeletedNotActive ==
  [][/\ NotDeleted(currentProfile)'
     /\ NotDeleted(loadSavedProfile)'
     /\ (hd.pc = "delete" /\ hd'.pc # "delete") =>
          LET deleted == hd.profileToDelete
              first == FirstRemaining(profiles, deleted.id)
          IN IF hd'.pc = "load"
             THEN currentProfile.id = deleted.id =>
                    (currentProfile' = first /\ loadSavedProfile' = first)
             ELSE /\ currentProfile' = currentProfile
                  /\ savedProfile' = savedProfile
                  /\ profiles' = profiles
                  /\ memberProfiles' = memberProfiles]_vars

C28_RefreshKeepsSelection ==
  [][(rf.pc = "select" /\ rf'.pc = "idle") =>
       /\ currentProfile'.id = currentProfile.id
       /\ \/ savedProfile' = savedProfile
          \/ loadSavedProfile'.id = currentProfile.id]_vars

\* addProfile data that names a role or a name
Identified(data) == data.role # Undef \/ data.fullName # Undef

\* C12 (as claimed): an addProfile call whose data has no role and no name is
\* rejected before any remote call: its insert is never sent, and it never
\* resolves.
C12_AddProfileValidates ==
  (ap.result # "none" /\ ~Identified(ap.data)) =>
    (ap.pc = "idle" /\ ap.result = "rejected")

\* C19 (as claimed): a loadProfiles call whose select fails returns normally:
\* the error does not reach its caller.
C19_LoadProfilesSwallows ==
  (lp.pc = "idle" /\ lp.outcome \in {"err", "throw"}) => lp.result = "resolved"

(***************************************************************************)
(* Specifications of the training service and of the training player       *)
(***************************************************************************)
\* profile "P" of the signed-in account "u1" is active; no training row yet
TrainStart ==
  /\ bookmarkedResources = EmptyMap
  /\ loading = FALSE
  /\ bookmarks = [k \in Profiles \X ResourceIds |-> 0]
  /\ currentProfile = ProfileOf("P")
  /\ savedProfile = ItemOf(ProfileOf("P"))
  /\ tg = [i \in TgCalls |-> IdleTg]
  /\ ld = [j \in LdCalls |-> IdleLd]
  /\ run = NoRun
  /\ isInitialized = TRUE /\ session = "u1" /\ user = "u1"
  /\ account = mapRowToAccount(InitialRow("u1"))
  /\ authSession = "u1"
  /\ accounts = [u \in Users |-> InitialRow(u)]
  /\ lg = IdleLg /\ lo = IdleLo /\ ua = IdleUa
  /\ cs = [k \in CsCalls |-> IdleCs]
  /\ DirIdle /\ TrainIdle

\* the service functions called one after the other by any caller
TrainNext ==
  \/ \E key \in TrainingKeys : StartTrainingModuleCall(key)
  \/ StartTrainingModuleUpsert
  \/ \E key \in TrainingKeys, pct \in Percentages, isCompleted \in BOOLEAN :
       UpdateTrainingProgressCall(key, pct, isCompleted)
  \/ \E key \in TrainingKeys : CompleteTrainingModuleCall(key)
  \/ UpdateTrainingProgressUpdate

TrainSpec == TrainStart /\ [][TrainNext]_vars

\* the training player of the active profile
PlayerNext ==
  \/ TrainingPlayerMount
  \/ \E next \in BOOLEAN : Navigate(next)
  \/ LoadEffectGet
  \/ LoadEffectStart
  \/ LoadEffectGetAgain
  \/ UpdateEffectWrite
  \/ UpdateEffectGet

PlayerSpec == TrainStart /\ [][PlayerNext]_vars

(***************************************************************************)
(* Properties of the training service and of the training player           *)
(***************************************************************************)
\* C15 (as claimed): a row is flagged complete only with percentage 100, and
\* a completed row stays completed with percentage 100 whatever call follows.
C15_CompletedIsTerminal ==
  [][\A k \in TrainingKeys :
       LET before == trainingProgress[k]
           after == trainingProgress'[k]
       IN /\ after.is_completed => after.completion_percentage = 100
          /\ (before.exists /\ before.is_completed) =>
               (after.is_completed /\ after.completion_percentage = 100)]_vars

\* C16 (as claimed): startTrainingModule on a module that is already started
\* leaves the stored percentage and completion flag as they were.
C16_StartKeepsProgress ==
  [][(sv.pc = "upsert" /\ sv'.pc = "idle" /\ trainingProgress[sv.key].started_at # Null)
       => /\ trainingProgress'[sv.key].completion_percentage
               = trainingProgress[sv.key].completion_percentage
          /\ trainingProgress'[sv.key].is_completed
               = trainingProgress[sv.key].is_completed]_vars

\* C29 (as claimed): once the two effects of the player have settled with
\* every remote call answered, in whatever order the calls were answered, the
\* row of the module reflects the current video index: its percentage is
\* round((index + 1) / videoCount * 100) and it is completed exactly when the
\* index is the last video.
C29_RowReflectsIndex ==
  LET key == fx["load"].key
  IN ( /\ fx["load"].pc = "idle" /\ fx["load"].outcome = "ok"
       /\ fx["update"].pc = "idle" /\ fx["update"].outcome = "ok"
       /\ trainingProgress[key].exists )
     => /\ trainingProgress[key].completion_percentage = CompletionPercentage(index)
        /\ trainingProgress[key].is_completed = (index = VideoCount - 1)

\* startTrainingModule, updateTrainingProgress(40), completeTrainingModule on
\* one pair, each returned normally, and no other call that wrote the table
Scenario(key) ==
  << [op |-> "start", key |-> key, input |-> 0, isCompleted |-> FALSE],
     [op |-> "update", key |-> key, input |-> 40, isCompleted |-> FALSE],
     [op |-> "complete", key |-> key, input |-> 100, isCompleted |-> TRUE] >>

\* C17: for a pair with no row, after startTrainingModule, then
\* updateTrainingProgress(40), then completeTrainingModule, getModuleProgress
\* returns percentage 100, status 'completed' and a completion time.
C17_StartUpdateComplete ==
  \A key \in TrainingKeys :
    trace = Scenario(key) =>
      LET got == ModuleProgress(key)
      IN /\ got # NullProgress
         /\ got.completionPercentage = 100
         /\ got.completionStatus = "completed"
         /\ got.completedTime # Null

C17_Witness ==
  /\ trace = Scenario(<<"P", "training_mtm">>)
  /\ sv.pc = "idle" /\ sv.op = "complete" /\ sv.result = "resolved"
  /\ ModuleProgress(<<"P", "training_mtm">>).completionStatus = "completed"

\* C18: an updateTrainingProgress that writes a row stores 100 for an input
\* above 100, 0 for an input below 0 and the input itself otherwise, and the
\* percentage of every row is within 0..100.
C18_UpdateClamps ==
  [][/\ (sv.pc = "update" /\ sv'.pc = "idle" /\ sv'.outcome = "ok"
           /\ trainingProgress[sv.key].exists)
        => trainingProgress'[sv.key].completion_percentage
             = (IF sv.input > 100 THEN 100 ELSE IF sv.input < 0 THEN 0 ELSE sv.input)
     /\ \A k \in TrainingKeys :
          trainingProgress'[k].completion_percentage \in 0..100]_vars

\* a row that held 100 after an input of 150 holds 0 after an input of -10
C18_Witness ==
  /\ Len(trace) = 3
  /\ trace[2].input = 150 /\ trace[3].input = -10 /\ trace[3].key = trace[2].key
  /\ trainingProgress[trace[3].key].exists
  /\ trainingProgress[trace[3].key].completion_percentage = 0

====
